---- MODULE Spec2Model ----
(***************************************************************************)
(* A model of the site builder of jakeisnt/quine.                          *)
(*                                                                         *)
(*   src/src/build.ts     buildSiteFromFile, buildFromPath                 *)
(*   src/src/deploy.ts    commitFolderToBranch                             *)
(*   src/unnamed/part_001 TypeScriptFile (filetypes, targets, create, js), *)
(*                        deploy                                           *)
(*                                                                         *)
(* A path is a tuple of segments: <<"site", "docs">> is /site/docs.  A     *)
(* path string plus a suffix ("p" + ".html") extends the last segment.     *)
(***************************************************************************)
EXTENDS Integers, Sequences, FiniteSets, TLC

\* ------------------------------------------------------------------ paths

\* The total number of dependency references in the source tree.
MaxEdges == 3

SourceDir == <<"site">>
OutsideDir == <<"out">>

Index == <<"site", "index.html">>
PageA == <<"site", "a.html">>
Docs == <<"site", "docs">>
DocsPage == <<"site", "docs", "source", "a.html">>

\* The files of the source tree a build can meet.
Files == {Index, PageA, Docs, DocsPage}

\* Path.join("/x")
Join(p, seg) == Append(p, seg)

\* string concatenation  p + ".html"
Suffix(p, s) == [p EXCEPT ![Len(p)] = @ \o s]

\* p is d or lies underneath d
IsPrefix(d, p) == Len(d) <= Len(p) /\ SubSeq(p, 1, Len(d)) = d

\* ------------------------------------------------------------------ inputs

RECURSIVE GraphsUpTo(_)
\* every dependency graph over Files with at most k references in all; a
\* file's dependencies are an ordered list, with repetitions, self
\* references and cycles
GraphsUpTo(k) ==
  IF k = 0 THEN {[f \in Files |-> <<>>]}
  ELSE LET G == GraphsUpTo(k - 1)
       IN  G \cup {[g EXCEPT ![f] = Append(@, m)] : g \in G, f \in Files, m \in Files}

Graphs == GraphsUpTo(MaxEdges)

\* the target directory inside the source tree (./docs) or outside it
TargetDirs == {Docs, OutsideDir}

\* the configured ignore paths (absolute, as loadConfig makes them)
IgnoreChoices == {<<>>, << <<"site", "a">> >>, << DocsPage >>, << Index >>}

Range(s) == {s[k] : k \in 1..Len(s)}

\* ------------------------------------------------------------------ state

VARIABLES
  deps,            \* file.dependencies(settings) of every file of the tree
  settings,        \* the PageSettings buildFromPath is given
  phase,           \* where buildFromPath is
  dir,             \* the result of readFile(indexPath, cfg): a sequence
                   \* of zero (absent) or one node
  filesSeenSoFar,  \* the visited-set
  stack,           \* the active buildSiteFromFile calls, root first
  log,             \* what has happened, in order
  output,          \* the output tree: what has been written, and from what
  cfgOfRun,        \* the copy of the settings the traversal is handed:
                   \* none before line 61, one after
  previous,        \* the output tree and the log of the build before this
                   \* one, if there was one
  disk,            \* the text of every file that exists, "none" otherwise
  request,         \* the path last handed to readFile, if any
  resolved,        \* what readFile returned: zero (absent) or one node
  probed,          \* the paths readFile tested for existence, in order
  served,          \* the content last read from the resolved node, if any
  transformRuns,   \* how often a transform has run for the last request
  descriptors,     \* the handlers a registry is constructed from, in order
  registered,      \* how many of them have been registered
  extMap,          \* the registry's extension map: the handler of each
                   \* extension, "none" where there is none
  regState,        \* "building", "ready" or "failed"
  lookups,         \* the lookups answered, in order
  variant,         \* which deploy runs: "commitFolderToBranch" (src/deploy.ts)
                   \* or "deploy" (the one beside ts.ts)
  dpc,             \* where the deploy is
  branch,          \* the branch the repository has checked out
  targetBranch,    \* the deployment branch
  currentBranch,   \* const currentBranch = repo.currentBranch(); "" before
  folderExists,    \* the folder to commit exists
  tmpExists,       \* /tmp/jake-site-deploy exists
  stashed,         \* the entries on the stash
  gitLog,          \* the operations on the repository and the file system,
                   \* in order, failed ones included
  atStart          \* the repository and file system as the deploy found them

bvars == <<deps, settings, phase, dir, filesSeenSoFar, stack, log,
          output, cfgOfRun, previous>>

rvars == <<disk, request, resolved, probed, served, transformRuns>>

gvars == <<descriptors, registered, extMap, regState, lookups>>

dvars == <<variant, dpc, branch, targetBranch, currentBranch, folderExists,
           tmpExists, stashed, gitLog, atStart>>

\* the variables of the components a build or a resolution leaves alone
ovars == <<gvars, dvars>>

vars == <<deps, settings, phase, dir, filesSeenSoFar, stack, log,
          output, cfgOfRun, previous,
          disk, request, resolved, probed, served, transformRuns,
          descriptors, registered, extMap, regState, lookups,
          variant, dpc, branch, targetBranch, currentBranch, folderExists,
          tmpExists, stashed, gitLog, atStart>>

\* line 61: the configuration the traversal runs under
cfg == [settings EXCEPT !.targetDir = Join(@, "source")]

\* File.write(settings): the output location mirrors the file's place
\* under the source directory
OutPath(p, s) == s.targetDir \o SubSeq(p, Len(s.sourceDir) + 1, Len(p))

\* homePage(settings): the generated landing page
HomePage == <<"homePage">>

\* the seeding without the target directory's own path
SeedWithoutTarget(s) ==
  Range(s.ignorePaths)
    \cup {Suffix(p, ".html") : p \in Range(s.ignorePaths)}
    \cup { Join(s.sourceDir, ".git"),
           Join(s.sourceDir, ".direnv"),
           Join(s.sourceDir, "node_modules"),
           Suffix(s.targetDir, ".html"),
           Join(s.targetDir, "index.html") }

\* lines 81-91: the initial visited-set
Seed(s) ==
  Range(s.ignorePaths)
    \cup {Suffix(p, ".html") : p \in Range(s.ignorePaths)}
    \cup { s.targetDir,
           Join(s.sourceDir, ".git"),
           Join(s.sourceDir, ".direnv"),
           Join(s.sourceDir, "node_modules"),
           Suffix(s.targetDir, ".html"),
           Join(s.targetDir, "index.html") }

Event(op, p) == [op |-> op, path |-> p, depth |-> Len(stack)]

\* a call that enumerates the dependencies without writing first
FrameDepsFirst(p) == [file |-> p, pc |-> "deps", i |-> 1]

\* a call starts at the write of line 19
Frame(p) == [file |-> p, pc |-> "write", i |-> 1]

Top == stack[Len(stack)]

SetTop(f) == [stack EXCEPT ![Len(stack)] = f]

Pop == SubSeq(stack, 1, Len(stack) - 1)

\* ------------------------------------------------------------------ the resolver

\* The paths readFile is asked for: /site/foo.<ext>.
Exts == {"js", "ts", "tsx", "css", "scss"}

RPaths == [stem : {<<"site", "foo">>}, ext : Exts]

\* what a file can hold; a file holding Unreadable exists, and reading its
\* text throws
Unreadable == "unreadable"

Texts == {"text1", "text2", Unreadable}

Disks == [RPaths -> Texts \cup {"none"}]

Exists(d, p) == d[p] # "none"

\* registration in the wrong order
TypeScriptFile_filetypesSwapped == <<"tsx", "ts">>

\* static filetypes = ["ts", "tsx"]
TypeScriptFile_filetypes == <<"ts", "tsx">>

\* static targets = ["js"]
TypeScriptFile_targets == <<"js">>

\* the handlers, in registration order
Handlers ==
  << [name |-> "JavascriptFile", filetypes |-> <<"js">>, targets |-> <<>>],
     [name |-> "TypeScriptFile", filetypes |-> TypeScriptFile_filetypes,
      targets |-> TypeScriptFile_targets],
     [name |-> "SCSSFile", filetypes |-> <<"scss">>, targets |-> <<"css">>] >>

RECURSIVE CompileSourcesUpTo(_, _)
\* the compile map's entry for a target extension after the first n
\* handlers have been registered: the extensions of every handler that
\* declares the target, in registration order
CompileSourcesUpTo(target, n) ==
  IF n = 0 THEN <<>>
  ELSE CompileSourcesUpTo(target, n - 1)
         \o (IF target \in Range(Handlers[n].targets)
             THEN Handlers[n].filetypes ELSE <<>>)

compileSourcesFor(target) == CompileSourcesUpTo(target, Len(Handlers))

\* the handler registered for an extension, the opaque text variant if none
lookup(ext) ==
  LET hs == {n \in 1..Len(Handlers) : ext \in Range(Handlers[n].filetypes)}
  IN  IF hs = {} THEN "TextFile" ELSE Handlers[CHOOSE n \in hs : TRUE].name

\* ------------------------------------------------------------------ registration

\* The number of lookups a constructed registry is asked for.
MaxLookups == 2

\* static filetypes = ["ts", "tsx", "js", "jsx"]: the TypeScript handler
\* as it was before it stopped claiming js
TypeScriptFile_before ==
  [name |-> "TypeScriptFile", filetypes |-> <<"ts", "tsx", "js", "jsx">>, targets |-> <<>>]

\* the handlers a registry may be constructed from
Candidates == Range(Handlers) \cup {TypeScriptFile_before}

\* every order of registration of one to n of the candidates
RECURSIVE OrdersUpTo(_)
OrdersUpTo(n) ==
  IF n = 0 THEN {<<>>}
  ELSE LET O == OrdersUpTo(n - 1)
       IN  O \cup {Append(o, h) : o \in O, h \in Candidates}

Orders ==
  {o \in OrdersUpTo(Cardinality(Candidates)) :
     /\ o # <<>>
     /\ \A i, j \in DOMAIN o : i # j => o[i] # o[j]}

\* the extensions a lookup may be made for: the claimed ones, the compile
\* targets and one that no handler knows
LookupExts == UNION {Range(h.filetypes) : h \in Candidates} \cup Exts \cup {"txt"}

\* a registration that lets a later handler take over an extension
registerNoCheck(map, h) ==
  [ok |-> TRUE,
   map |-> [e \in DOMAIN map |-> IF e \in Range(h.filetypes) THEN h.name ELSE map[e]]]

\* register(descriptor): the handler's extensions enter the extension map,
\* unless one of them is there already, which fails the construction
register(map, h) ==
  IF \E e \in Range(h.filetypes) : map[e] # "none"
  THEN [ok |-> FALSE, map |-> map]
  ELSE [ok |-> TRUE,
        map |-> [e \in DOMAIN map |-> IF e \in Range(h.filetypes) THEN h.name ELSE map[e]]]

\* lookup(extension) on an extension map
lookupIn(map, ext) == IF map[ext] = "none" THEN "TextFile" ELSE map[ext]

\* a node read from the disk
FileNode(handler, p) ==
  [path |-> p, handler |-> handler, derivedFrom |-> <<>>, transform |-> "none"]

\* a create with the test of existence turned round
TypeScriptFile_createInverted(d, filePath) ==
  IF Exists(d, filePath) THEN <<>> ELSE <<FileNode("TypeScriptFile", filePath)>>

\* TypeScriptFile.create: a node if the file exists, null (<<>>) if not
TypeScriptFile_create(d, filePath) ==
  IF Exists(d, filePath) THEN <<FileNode("TypeScriptFile", filePath)>> ELSE <<>>

\* the create of the other handlers
create(d, handler, filePath) ==
  IF handler = "TypeScriptFile" THEN TypeScriptFile_create(d, filePath)
  ELSE IF Exists(d, filePath) THEN <<FileNode(handler, filePath)>> ELSE <<>>

\* wrapFile: the node of the source under another extension, its content
\* the transform of the source, computed when it is read
wrapFile(file, transform, options) ==
  [path |-> [file.path EXCEPT !.ext = options.extension],
   handler |-> lookup(options.extension),
   derivedFrom |-> <<file>>,
   transform |-> transform,
   ran |-> 0]

\* a derivation that hands the source text over as it is
TypeScriptFile_jsUntranspiled(file) ==
  wrapFile(file, "text", [extension |-> "js"])

\* a derivation that transpiles at once, read or not
TypeScriptFile_jsEager(file) ==
  [wrapFile(file, "tsToJs", [extension |-> "js"]) EXCEPT !.ran = 1]

\* TypeScriptFile.js
TypeScriptFile_js(file) ==
  wrapFile(file, "tsToJs", [extension |-> "js"])

\* the method of a source node named after the target extension
derive(file, ext) ==
  IF file.handler = "TypeScriptFile" /\ ext = "js" THEN TypeScriptFile_js(file)
  ELSE wrapFile(file, "sass", [extension |-> ext])

\* file.text(cfg)
text(d, file) ==
  IF d[file.path] = Unreadable THEN [lang |-> "error", body |-> ""]
  ELSE [lang |-> file.path.ext, body |-> d[file.path]]

\* tsToJs: the source text transpiled
tsToJs(d, tsFile) ==
  LET t == text(d, tsFile)
  IN  IF t.lang = "error" THEN t ELSE [lang |-> "js", body |-> t.body]

\* the content of a node: the text of its file, or for a derived node its
\* transform applied to the source
read(d, node) ==
  IF node.derivedFrom = <<>> THEN text(d, node)
  ELSE LET src == node.derivedFrom[1]
           t == text(d, src)
       IN  IF node.transform = "tsToJs" THEN tsToJs(d, src)
           ELSE IF node.transform = "sass"
           THEN (IF t.lang = "error" THEN t ELSE [lang |-> "css", body |-> t.body])
           ELSE t

RECURSIVE firstSource(_, _, _, _)
\* steps 2-3 of the resolution: the candidates are tried in order from the
\* n-th on, and the first that exists is derived from.  The result and the
\* paths tested.
firstSource(d, p, cands, n) ==
  IF n > Len(cands) THEN [node |-> <<>>, probed |-> <<>>]
  ELSE LET sibling == [p EXCEPT !.ext = cands[n]]
       IN  IF Exists(d, sibling)
           THEN [node |-> <<derive(create(d, lookup(cands[n]), sibling)[1], p.ext)>>,
                 probed |-> <<sibling>>]
           ELSE LET rest == firstSource(d, p, cands, n + 1)
                IN  [node |-> rest.node, probed |-> <<sibling>> \o rest.probed]

\* readFile: the node for a path, absent (<<>>) if there is none
readFile(d, p) ==
  IF Exists(d, p)
  THEN [node |-> create(d, lookup(p.ext), p), probed |-> <<p>>]
  ELSE LET r == firstSource(d, p, compileSourcesFor(p.ext), 1)
       IN  [node |-> r.node, probed |-> <<p>> \o r.probed]

\* ------------------------------------------------------------------ the build

\* the top-level call has returned (line 95) or thrown (lines 96-98)
AfterPop(st, threw) ==
  IF st = <<>> THEN (IF threw THEN "failed" ELSE "done") ELSE "building"

\* no build has started
BuildIdle ==
  /\ phase = "start"
  /\ dir = <<>>
  /\ filesSeenSoFar = {}
  /\ stack = <<>>
  /\ log = <<>>
  /\ output = {}
  /\ cfgOfRun = <<>>
  /\ previous = <<>>

\* no resolution has been asked for
ResolverIdle ==
  /\ request = <<>>
  /\ resolved = <<>>
  /\ probed = <<>>
  /\ served = <<>>
  /\ transformRuns = 0

\* no registry is under construction
RegistryIdle ==
  /\ descriptors = <<>>
  /\ registered = 0
  /\ extMap = [e \in LookupExts |-> "none"]
  /\ regState = "building"
  /\ lookups = <<>>

\* no deploy is running
DeployIdle ==
  /\ variant = "none"
  /\ dpc = "idle"
  /\ branch = "main"
  /\ targetBranch = "production"
  /\ currentBranch = ""
  /\ folderExists = FALSE
  /\ tmpExists = FALSE
  /\ stashed = 0
  /\ gitLog = <<>>
  /\ atStart = [branch |-> "main", folderExists |-> FALSE, tmpExists |-> FALSE]

Init ==
  /\ deps \in Graphs
  /\ settings \in [sourceDir : {SourceDir}, targetDir : TargetDirs,
                   ignorePaths : IgnoreChoices]
  /\ BuildIdle
  /\ disk = [p \in RPaths |-> "none"]
  /\ ResolverIdle
  /\ RegistryIdle
  /\ DeployIdle

\* ------------------------------------------------------------------ buildFromPath

\* lines 50-58: the root index.html is written to the target directory
WriteRootFile ==
  /\ phase = "start"
  /\ \E ok \in BOOLEAN :
       /\ phase' = IF ok THEN "rootWritten" ELSE "failed"
       /\ log' = Append(log, [op |-> IF ok THEN "rootFile" ELSE "rootFileFail",
                              path |-> Join(settings.targetDir, "index.html"),
                              depth |-> 0])
       /\ output' = IF ok THEN output \cup {[at |-> Join(settings.targetDir, "index.html"),
                                              from |-> HomePage]}
                          ELSE output
  /\ UNCHANGED <<deps, settings, dir, filesSeenSoFar, stack>>
  /\ UNCHANGED <<cfgOfRun, previous>>
  /\ UNCHANGED <<rvars, ovars>>

\* the resolution without the check for absence
ReadIndexUnchecked ==
  /\ phase = "rootWritten"
  /\ \E found \in BOOLEAN :
       /\ dir' = IF found THEN <<Join(settings.sourceDir, "index.html")>> ELSE <<>>
       /\ phase' = "indexRead"
       /\ log' = Append(log, [op |-> IF found THEN "readIndex" ELSE "readIndexAbsent",
                              path |-> Join(settings.sourceDir, "index.html"),
                              depth |-> 0])
  /\ cfgOfRun' = <<cfg>>
  /\ UNCHANGED <<deps, settings, filesSeenSoFar, stack>>
  /\ UNCHANGED <<output, previous>>
  /\ UNCHANGED <<rvars, ovars>>

\* the traversal's configuration made by changing the caller's object in
\* place instead of copying it
ReadIndexMutatesSettings ==
  /\ phase = "rootWritten"
  /\ \E found \in BOOLEAN :
       /\ dir' = IF found THEN <<Join(settings.sourceDir, "index.html")>> ELSE <<>>
       /\ phase' = IF found THEN "indexRead" ELSE "failed"
       /\ log' = Append(log, [op |-> IF found THEN "readIndex" ELSE "readIndexAbsent",
                              path |-> Join(settings.sourceDir, "index.html"),
                              depth |-> 0])
  /\ settings' = cfg
  /\ cfgOfRun' = <<settings'>>
  /\ UNCHANGED <<deps, filesSeenSoFar, stack>>
  /\ UNCHANGED <<output, previous>>
  /\ UNCHANGED <<rvars, ovars>>

\* lines 61-73: the traversal's copy of the settings is made and the source
\* index.html is resolved; absent is fatal
ReadIndex ==
  /\ phase = "rootWritten"
  /\ \E found \in BOOLEAN :
       /\ dir' = IF found THEN <<Join(settings.sourceDir, "index.html")>> ELSE <<>>
       /\ phase' = IF found THEN "indexRead" ELSE "failed"
       /\ log' = Append(log, [op |-> IF found THEN "readIndex" ELSE "readIndexAbsent",
                              path |-> Join(settings.sourceDir, "index.html"),
                              depth |-> 0])
  /\ cfgOfRun' = <<cfg>>
  /\ UNCHANGED <<deps, settings, filesSeenSoFar, stack>>
  /\ UNCHANGED <<output, previous>>
  /\ UNCHANGED <<rvars, ovars>>

\* the entry without the test of line 15
EnterNoCheck(p, seen, st, lg) ==
  [seen |-> seen \cup {p}, stack |-> Append(st, Frame(p)),
   log |-> lg \o <<[op |-> "call", path |-> p, depth |-> Len(st) + 1],
                   [op |-> "add", path |-> p, depth |-> Len(st) + 1]>>]

\* the entry without the insertion of line 16
EnterNoAdd(p, seen, st, lg) ==
  IF p \in seen
  THEN [seen |-> seen, stack |-> st,
        log |-> lg \o <<[op |-> "call", path |-> p, depth |-> Len(st) + 1],
                        [op |-> "skip", path |-> p, depth |-> Len(st) + 1]>>]
  ELSE [seen |-> seen, stack |-> Append(st, Frame(p)),
        log |-> lg \o <<[op |-> "call", path |-> p, depth |-> Len(st) + 1]>>]

\* lines 15-16 for a call of buildSiteFromFile(p, ...) made with the
\* visited-set seen and the call stack st: the new visited-set, stack and
\* log.  A path already seen returns at once.
Enter(p, seen, st, lg) ==
  IF p \in seen
  THEN [seen |-> seen, stack |-> st,
        log |-> lg \o <<[op |-> "call", path |-> p, depth |-> Len(st) + 1],
                        [op |-> "skip", path |-> p, depth |-> Len(st) + 1]>>]
  ELSE [seen |-> seen \cup {p}, stack |-> Append(st, Frame(p)),
        log |-> lg \o <<[op |-> "call", path |-> p, depth |-> Len(st) + 1],
                        [op |-> "add", path |-> p, depth |-> Len(st) + 1]>>]

\* the traversal started on a visited-set that outlives the call
StartBuildStaleSet ==
  /\ phase = "indexRead"
  /\ LET seeded == filesSeenSoFar \cup Seed(settings)
         e == Enter(dir[1], seeded, <<>>,
                    Append(log, [op |-> "seed", path |-> <<>>, depth |-> 0]))
     IN  /\ filesSeenSoFar' = e.seen
         /\ stack' = e.stack
         /\ log' = e.log
         /\ phase' = AfterPop(e.stack, FALSE)
  /\ UNCHANGED <<deps, settings, dir>>
  /\ UNCHANGED <<output, cfgOfRun, previous>>
  /\ UNCHANGED <<rvars, ovars>>

\* lines 81-94: the visited-set is seeded and the traversal starts
StartBuild ==
  /\ phase = "indexRead"
  /\ LET seeded == Seed(settings)
         e == Enter(dir[1], seeded, <<>>,
                    Append(log, [op |-> "seed", path |-> <<>>, depth |-> 0]))
     IN  /\ filesSeenSoFar' = e.seen
         /\ stack' = e.stack
         /\ log' = e.log
         /\ phase' = AfterPop(e.stack, FALSE)
  /\ UNCHANGED <<deps, settings, dir>>
  /\ UNCHANGED <<output, cfgOfRun, previous>>
  /\ UNCHANGED <<rvars, ovars>>

\* ------------------------------------------------------------------ buildSiteFromFile

\* lines 18-19: file.write(settings) succeeds
WriteOk ==
  /\ phase = "building"
  /\ Top.pc = "write"
  /\ stack' = SetTop([Top EXCEPT !.pc = "deps"])
  /\ log' = Append(log, Event("write", Top.file))
  /\ output' = output \cup {[at |-> OutPath(Top.file, cfgOfRun[1]), from |-> Top.file]}
  /\ UNCHANGED <<deps, settings, phase, dir, filesSeenSoFar>>
  /\ UNCHANGED <<cfgOfRun, previous>>
  /\ UNCHANGED <<rvars, ovars>>

\* the failed write that takes the path out of the visited-set again, so
\* that the file is tried again when it is met again
WriteFailUnmarks ==
  /\ phase = "building"
  /\ Top.pc = "write"
  /\ stack' = Pop
  /\ filesSeenSoFar' = filesSeenSoFar \ {Top.file}
  /\ log' = log \o <<Event("writeFail", Top.file), Event("throw", Top.file)>>
  /\ phase' = AfterPop(Pop, TRUE)
  /\ UNCHANGED <<deps, settings, dir>>
  /\ UNCHANGED <<output, cfgOfRun, previous>>
  /\ UNCHANGED <<rvars, ovars>>

\* the failed write without the rethrow of line 22: the call goes on
WriteFailSwallowed ==
  /\ phase = "building"
  /\ Top.pc = "write"
  /\ stack' = SetTop([Top EXCEPT !.pc = "deps"])
  /\ log' = Append(log, Event("writeFail", Top.file))
  /\ UNCHANGED <<deps, settings, phase, dir, filesSeenSoFar>>
  /\ UNCHANGED <<output, cfgOfRun, previous>>
  /\ UNCHANGED <<rvars, ovars>>

\* the failed write without the catch of lines 30-36: the error leaves
\* every caller
WriteFailUncaught ==
  /\ phase = "building"
  /\ Top.pc = "write"
  /\ stack' = <<>>
  /\ log' = log \o <<Event("writeFail", Top.file), Event("throw", Top.file)>>
  /\ phase' = "failed"
  /\ UNCHANGED <<deps, settings, dir, filesSeenSoFar>>
  /\ UNCHANGED <<output, cfgOfRun, previous>>
  /\ UNCHANGED <<rvars, ovars>>

\* lines 20-23: file.write(settings) throws; the error is rethrown out of
\* this call, to the catch of the caller (lines 30-36, or 96-98 at the top)
WriteFail ==
  /\ phase = "building"
  /\ Top.pc = "write"
  /\ stack' = Pop
  /\ log' = log \o <<Event("writeFail", Top.file), Event("throw", Top.file)>>
  /\ phase' = AfterPop(Pop, TRUE)
  /\ UNCHANGED <<deps, settings, dir, filesSeenSoFar>>
  /\ UNCHANGED <<output, cfgOfRun, previous>>
  /\ UNCHANGED <<rvars, ovars>>

\* line 26: file.dependencies(settings) returns the file's dependencies
DependenciesOk ==
  /\ phase = "building"
  /\ Top.pc = "deps"
  /\ stack' = SetTop([Top EXCEPT !.pc = "loop"])
  /\ log' = Append(log, Event("deps", Top.file))
  /\ UNCHANGED <<deps, settings, phase, dir, filesSeenSoFar>>
  /\ UNCHANGED <<output, cfgOfRun, previous>>
  /\ UNCHANGED <<rvars, ovars>>

\* the failed enumeration without the catch of lines 38-41: the error
\* leaves the call
DependenciesFailThrows ==
  /\ phase = "building"
  /\ Top.pc = "deps"
  /\ stack' = Pop
  /\ log' = log \o <<Event("depsFail", Top.file), Event("throw", Top.file)>>
  /\ phase' = AfterPop(Pop, TRUE)
  /\ UNCHANGED <<deps, settings, dir, filesSeenSoFar>>
  /\ UNCHANGED <<output, cfgOfRun, previous>>
  /\ UNCHANGED <<rvars, ovars>>

\* lines 38-41: file.dependencies(settings) throws; the error is caught in
\* this call, which returns normally
DependenciesFail ==
  /\ phase = "building"
  /\ Top.pc = "deps"
  /\ stack' = Pop
  /\ log' = log \o <<Event("depsFail", Top.file), Event("return", Top.file)>>
  /\ phase' = AfterPop(Pop, FALSE)
  /\ UNCHANGED <<deps, settings, dir, filesSeenSoFar>>
  /\ UNCHANGED <<output, cfgOfRun, previous>>
  /\ UNCHANGED <<rvars, ovars>>

\* lines 27-29: the next dependency is built
BuildDependency ==
  /\ phase = "building"
  /\ Top.pc = "loop"
  /\ Top.i <= Len(deps[Top.file])
  /\ LET e == Enter(deps[Top.file][Top.i], filesSeenSoFar,
                    SetTop([Top EXCEPT !.i = @ + 1]), log)
     IN  /\ filesSeenSoFar' = e.seen
         /\ stack' = e.stack
         /\ log' = e.log
  /\ UNCHANGED <<deps, settings, phase, dir>>
  /\ UNCHANGED <<output, cfgOfRun, previous>>
  /\ UNCHANGED <<rvars, ovars>>

\* the return that takes the path out of the set: the set of the calls in
\* progress instead of the set of the files seen
ReturnUnmarks ==
  /\ phase = "building"
  /\ Top.pc = "loop"
  /\ Top.i > Len(deps[Top.file])
  /\ stack' = Pop
  /\ filesSeenSoFar' = filesSeenSoFar \ {Top.file}
  /\ log' = Append(log, Event("return", Top.file))
  /\ phase' = AfterPop(Pop, FALSE)
  /\ UNCHANGED <<deps, settings, dir>>
  /\ UNCHANGED <<output, cfgOfRun, previous>>
  /\ UNCHANGED <<rvars, ovars>>

\* line 42: every dependency has been built; the call returns
Return ==
  /\ phase = "building"
  /\ Top.pc = "loop"
  /\ Top.i > Len(deps[Top.file])
  /\ stack' = Pop
  /\ log' = Append(log, Event("return", Top.file))
  /\ phase' = AfterPop(Pop, FALSE)
  /\ UNCHANGED <<deps, settings, dir, filesSeenSoFar>>
  /\ UNCHANGED <<output, cfgOfRun, previous>>
  /\ UNCHANGED <<rvars, ovars>>

Next ==
  \/ WriteRootFile
  \/ ReadIndex
  \/ StartBuild
  \/ WriteOk
  \/ WriteFail
  \/ DependenciesOk
  \/ DependenciesFail
  \/ BuildDependency
  \/ Return

Spec == Init /\ [][Next]_vars

\* buildFromPath runs to its end: no step of it waits on anything
FairSpec == Spec /\ WF_vars(Next)

\* ------------------------------------------------------------------ building twice

\* line 47: buildFromPath is called a second time with the same settings on
\* the same source tree, the output directory emptied in between; the
\* locals of the first call are gone
Rebuild ==
  /\ phase \in {"done", "failed"}
  /\ previous = <<>>
  /\ previous' = <<[output |-> output, log |-> log]>>
  /\ phase' = "start"
  /\ dir' = <<>>
  /\ stack' = <<>>
  /\ log' = <<>>
  /\ output' = {}
  /\ cfgOfRun' = <<>>
  /\ UNCHANGED <<deps, settings, filesSeenSoFar>>
  /\ UNCHANGED <<rvars, ovars>>

RebuildNext ==
  \/ Next
  \/ Rebuild

\* the builds that are run twice: those with no ignore path and those
\* with one that seeds a page of the tree
RebuildInit ==
  /\ Init
  /\ settings.ignorePaths \in {<<>>, << <<"site", "a">> >>}

RebuildSpec == RebuildInit /\ [][RebuildNext]_vars

\* ------------------------------------------------------------------ the registry, on its own

RegistryInit ==
  /\ deps = [f \in Files |-> <<>>]
  /\ settings = [sourceDir |-> SourceDir, targetDir |-> Docs, ignorePaths |-> <<>>]
  /\ BuildIdle
  /\ disk = [p \in RPaths |-> "none"]
  /\ ResolverIdle
  /\ descriptors \in Orders
  /\ registered = 0
  /\ extMap = [e \in LookupExts |-> "none"]
  /\ regState = "building"
  /\ lookups = <<>>
  /\ DeployIdle

\* the construction registers the next handler, and fails if it cannot
Register ==
  /\ regState = "building"
  /\ registered < Len(descriptors)
  /\ LET r == register(extMap, descriptors[registered + 1])
     IN  IF r.ok
         THEN /\ extMap' = r.map
              /\ registered' = registered + 1
              /\ regState' = IF registered' = Len(descriptors) THEN "ready" ELSE "building"
         ELSE /\ regState' = "failed"
              /\ UNCHANGED <<extMap, registered>>
  /\ UNCHANGED <<descriptors, lookups>>
  /\ UNCHANGED <<bvars, rvars, dvars>>

\* a resolution looks an extension up in the constructed registry
Lookup ==
  /\ regState = "ready"
  /\ Len(lookups) < MaxLookups
  /\ \E e \in LookupExts :
       lookups' = Append(lookups, [ext |-> e, handler |-> lookupIn(extMap, e)])
  /\ UNCHANGED <<descriptors, registered, extMap, regState>>
  /\ UNCHANGED <<bvars, rvars, dvars>>

RegistryNext ==
  \/ Register
  \/ Lookup

RegistrySpec == RegistryInit /\ [][RegistryNext]_vars

\* ------------------------------------------------------------------ deploy

\* the branches of the repository: a working branch and the deployment
\* branch of the configuration
Branches == {"main", "production"}

\* an operation on the repository or the file system, as it went
G(op, arg, ok) == [op |-> op, arg |-> arg, on |-> branch, ok |-> ok]

DeployInit ==
  /\ deps = [f \in Files |-> <<>>]
  /\ settings = [sourceDir |-> SourceDir, targetDir |-> Docs, ignorePaths |-> <<>>]
  /\ BuildIdle
  /\ disk = [p \in RPaths |-> "none"]
  /\ ResolverIdle
  /\ RegistryIdle
  /\ variant \in {"commitFolderToBranch", "deploy"}
  /\ dpc = "start"
  /\ branch \in Branches
  /\ targetBranch \in Branches
  /\ currentBranch = ""
  /\ folderExists \in BOOLEAN
  /\ tmpExists \in BOOLEAN
  /\ stashed = 0
  /\ gitLog = <<>>
  /\ atStart = [branch |-> branch, folderExists |-> folderExists, tmpExists |-> tmpExists]

\* the start without the test for the folder
CheckFolderUnchecked ==
  /\ variant = "commitFolderToBranch"
  /\ dpc = "start"
  /\ currentBranch' = branch
  /\ dpc' = "stash"
  /\ UNCHANGED <<variant, branch, targetBranch, folderExists, tmpExists, stashed,
                 gitLog, atStart>>
  /\ UNCHANGED <<bvars, rvars, gvars>>

\* lines 18-25: the current branch is read; a missing folder is an error
CheckFolder ==
  /\ variant = "commitFolderToBranch"
  /\ dpc = "start"
  /\ currentBranch' = branch
  /\ dpc' = IF folderExists THEN "stash" ELSE "thrown"
  /\ UNCHANGED <<variant, branch, targetBranch, folderExists, tmpExists, stashed,
                 gitLog, atStart>>
  /\ UNCHANGED <<bvars, rvars, gvars>>

\* lines 28-34: addAll and stash; a failure of either is thrown
SaveChanges ==
  /\ dpc = "stash"
  /\ \E f \in {"none", "addAll", "stash"} :
       /\ gitLog' = gitLog \o
            (IF f = "addAll" THEN <<G("addAll", "", FALSE)>>
             ELSE <<G("addAll", "", TRUE), G("stash", "", f = "none")>>)
       /\ stashed' = IF f = "none" THEN stashed + 1 ELSE stashed
       /\ dpc' = IF f = "none" THEN "move" ELSE "thrown"
  /\ UNCHANGED <<variant, branch, targetBranch, currentBranch, folderExists,
                 tmpExists, atStart>>
  /\ UNCHANGED <<bvars, rvars, gvars>>

\* lines 37-55: an old tmp dir is removed and the folder moved to the tmp
\* dir; on a failure of either a stashPop is tried and the error thrown
MoveToTmp ==
  /\ dpc = "move"
  /\ \E f \in {"none", "rm", "move"}, popOk \in BOOLEAN :
       /\ f = "rm" => tmpExists
       /\ f = "none" => popOk
       /\ gitLog' = gitLog
            \o (IF tmpExists THEN <<G("rmTmp", "", f # "rm")>> ELSE <<>>)
            \o (IF f # "rm" THEN <<G("moveToTmp", "", f = "none")>> ELSE <<>>)
            \o (IF f # "none" THEN <<G("stashPop", "", popOk)>> ELSE <<>>)
       /\ tmpExists' = (IF f = "none" THEN TRUE ELSE IF f = "move" THEN FALSE ELSE tmpExists)
       /\ folderExists' = (IF f = "none" THEN FALSE ELSE folderExists)
       /\ stashed' = IF f # "none" /\ popOk THEN stashed - 1 ELSE stashed
       /\ dpc' = IF f = "none" THEN "fetch" ELSE "thrown"
  /\ UNCHANGED <<variant, branch, targetBranch, currentBranch, atStart>>
  /\ UNCHANGED <<bvars, rvars, gvars>>

\* lines 58-62: the target branch is fetched; a failure is only warned of
Fetch ==
  /\ dpc = "fetch"
  /\ \E ok \in BOOLEAN : gitLog' = Append(gitLog, G("fetch", targetBranch, ok))
  /\ dpc' = "checkout"
  /\ UNCHANGED <<variant, branch, targetBranch, currentBranch, folderExists,
                 tmpExists, stashed, atStart>>
  /\ UNCHANGED <<bvars, rvars, gvars>>

\* lines 65-77: the target branch is checked out, whose tree may hold the
\* folder; on a failure the tmp dir is moved back and, if that went well,
\* a stashPop is tried, and the error is thrown
CheckoutTarget ==
  /\ dpc = "checkout"
  /\ \E ok, backOk, popOk, there \in BOOLEAN :
       /\ ok => (backOk /\ popOk)
       /\ ~backOk => popOk
       /\ ~ok => there
       /\ gitLog' = gitLog
            \o <<G("checkout", targetBranch, ok)>>
            \o (IF ok THEN <<>> ELSE <<G("moveBack", "", backOk)>>)
            \o (IF ~ok /\ backOk THEN <<G("stashPop", "", popOk)>> ELSE <<>>)
       /\ branch' = IF ok THEN targetBranch ELSE branch
       /\ folderExists' = (IF ok THEN there ELSE IF backOk THEN TRUE ELSE folderExists)
       /\ tmpExists' = (IF ~ok /\ backOk THEN FALSE ELSE tmpExists)
       /\ stashed' = IF ~ok /\ backOk /\ popOk THEN stashed - 1 ELSE stashed
       /\ dpc' = IF ok THEN "clean" ELSE "thrown"
  /\ UNCHANGED <<variant, targetBranch, currentBranch, atStart>>
  /\ UNCHANGED <<bvars, rvars, gvars>>

\* lines 81-87: the untracked files of the target branch are removed
RemoveUntracked ==
  /\ dpc = "clean"
  /\ \E ok \in BOOLEAN :
       /\ gitLog' = Append(gitLog, G("removeUntracked", "", ok))
       /\ dpc' = IF ok THEN "place" ELSE "thrown"
  /\ UNCHANGED <<variant, branch, targetBranch, currentBranch, folderExists,
                 tmpExists, stashed, atStart>>
  /\ UNCHANGED <<bvars, rvars, gvars>>

\* lines 90-99: the contents of the tmp dir go beside the folder
MoveToDeployment ==
  /\ dpc = "place"
  /\ \E ok \in BOOLEAN :
       /\ gitLog' = Append(gitLog, G("moveContents", "", ok))
       /\ dpc' = IF ok THEN "publish" ELSE "thrown"
  /\ UNCHANGED <<variant, branch, targetBranch, currentBranch, folderExists,
                 tmpExists, stashed, atStart>>
  /\ UNCHANGED <<bvars, rvars, gvars>>

\* lines 103-113: addAll, commit and push; a failure of any is thrown
CommitAndPush ==
  /\ dpc = "publish"
  /\ \E f \in {"none", "addAll", "commit", "push"} :
       /\ gitLog' = gitLog
            \o <<G("addAll", "", f # "addAll")>>
            \o (IF f # "addAll" THEN <<G("commit", "", f # "commit")>> ELSE <<>>)
            \o (IF f \in {"none", "push"} THEN <<G("push", "", f = "none")>> ELSE <<>>)
       /\ dpc' = IF f = "none" THEN "restoreBranch" ELSE "thrown"
  /\ UNCHANGED <<variant, branch, targetBranch, currentBranch, folderExists,
                 tmpExists, stashed, atStart>>
  /\ UNCHANGED <<bvars, rvars, gvars>>

\* a deploy that goes on from the push without checking the original
\* branch out again
RestoreBranchSkipped ==
  /\ dpc = "restoreBranch"
  /\ dpc' = "cleanBack"
  /\ UNCHANGED <<variant, branch, targetBranch, currentBranch, folderExists,
                 tmpExists, stashed, gitLog, atStart>>
  /\ UNCHANGED <<bvars, rvars, gvars>>

\* lines 116-117: the branch deploy started on is checked out, outside
\* any try
RestoreBranch ==
  /\ dpc = "restoreBranch"
  /\ \E ok, there \in BOOLEAN :
       /\ ~ok => there
       /\ gitLog' = Append(gitLog, G("checkout", currentBranch, ok))
       /\ branch' = IF ok THEN currentBranch ELSE branch
       /\ folderExists' = (IF ok THEN there ELSE folderExists)
       /\ dpc' = IF ok THEN "cleanBack" ELSE "thrown"
  /\ UNCHANGED <<variant, targetBranch, currentBranch, tmpExists, stashed, atStart>>
  /\ UNCHANGED <<bvars, rvars, gvars>>

\* lines 120-121: the untracked files of the working branch are removed
RemoveUntrackedBack ==
  /\ dpc = "cleanBack"
  /\ \E ok \in BOOLEAN :
       /\ gitLog' = Append(gitLog, G("removeUntracked", "", ok))
       /\ dpc' = IF ok THEN "restoreDir" ELSE "thrown"
  /\ UNCHANGED <<variant, branch, targetBranch, currentBranch, folderExists,
                 tmpExists, stashed, atStart>>
  /\ UNCHANGED <<bvars, rvars, gvars>>

\* lines 124-143: a folder in the way is removed and the tmp dir moved
\* back; a failure is logged and the deploy goes on
RestoreDirectory ==
  /\ dpc = "restoreDir"
  /\ \E f \in {"none", "rm", "move"} :
       /\ f = "rm" => folderExists
       /\ f = "move" => tmpExists
       /\ gitLog' = gitLog
            \o (IF folderExists THEN <<G("rmFolder", "", f # "rm")>> ELSE <<>>)
            \o (IF f # "rm" /\ tmpExists THEN <<G("moveBack", "", f = "none")>> ELSE <<>>)
       /\ folderExists' = (IF f = "rm" THEN folderExists ELSE IF f = "move" THEN FALSE
                           ELSE tmpExists)
       /\ tmpExists' = (IF f = "none" THEN FALSE ELSE tmpExists)
  /\ dpc' = "pop"
  /\ UNCHANGED <<variant, branch, targetBranch, currentBranch, stashed, atStart>>
  /\ UNCHANGED <<bvars, rvars, gvars>>

\* lines 146-151: the stash is popped; a failure is logged only
RestoreStash ==
  /\ dpc = "pop"
  /\ \E ok \in BOOLEAN :
       /\ gitLog' = Append(gitLog, G("stashPop", "", ok))
       /\ stashed' = IF ok THEN stashed - 1 ELSE stashed
  /\ dpc' = "returned"
  /\ UNCHANGED <<variant, branch, targetBranch, currentBranch, folderExists,
                 tmpExists, atStart>>
  /\ UNCHANGED <<bvars, rvars, gvars>>

\* part_001 line 50: the deploy without a deployment branch reads the
\* current branch
SimpleStart ==
  /\ variant = "deploy"
  /\ dpc = "start"
  /\ currentBranch' = branch
  /\ dpc' = "addAll"
  /\ UNCHANGED <<variant, branch, targetBranch, folderExists, tmpExists, stashed,
                 gitLog, atStart>>
  /\ UNCHANGED <<bvars, rvars, gvars>>

\* part_001 lines 55-65: addAll, commit, push, none of them in a try
SimpleStep ==
  /\ dpc \in {"addAll", "commit", "push"}
  /\ \E ok \in BOOLEAN :
       /\ gitLog' = Append(gitLog, G(dpc, "", ok))
       /\ dpc' = IF ~ok THEN "thrown"
                 ELSE IF dpc = "addAll" THEN "commit"
                 ELSE IF dpc = "commit" THEN "push"
                 ELSE "returned"
  /\ UNCHANGED <<variant, branch, targetBranch, currentBranch, folderExists,
                 tmpExists, stashed, atStart>>
  /\ UNCHANGED <<bvars, rvars, gvars>>

DeployNext ==
  \/ CheckFolder
  \/ SaveChanges
  \/ MoveToTmp
  \/ Fetch
  \/ CheckoutTarget
  \/ RemoveUntracked
  \/ MoveToDeployment
  \/ CommitAndPush
  \/ RestoreBranch
  \/ RemoveUntrackedBack
  \/ RestoreDirectory
  \/ RestoreStash
  \/ SimpleStart
  \/ SimpleStep

DeploySpec == DeployInit /\ [][DeployNext]_vars

\* ------------------------------------------------------------------ resolution, on its own

ResolveInit ==
  /\ deps = [f \in Files |-> <<>>]
  /\ settings = [sourceDir |-> SourceDir, targetDir |-> Docs, ignorePaths |-> <<>>]
  /\ BuildIdle
  /\ disk \in Disks
  /\ ResolverIdle
  /\ RegistryIdle
  /\ DeployIdle

\* readFile(p, cfg)
Resolve ==
  /\ \E p \in RPaths :
       LET r == readFile(disk, p)
       IN  /\ request' = <<p>>
           /\ resolved' = r.node
           /\ probed' = r.probed
           /\ transformRuns' =
                IF r.node # <<>> /\ r.node[1].derivedFrom # <<>> THEN r.node[1].ran ELSE 0
  /\ served' = <<>>
  /\ UNCHANGED <<disk, bvars, ovars>>

\* the content of the resolved node is asked for (served or written)
ReadContent ==
  /\ resolved # <<>>
  /\ served = <<>>
  /\ served' = <<read(disk, resolved[1])>>
  /\ transformRuns' =
       IF resolved[1].derivedFrom # <<>> THEN transformRuns + 1 ELSE transformRuns
  /\ UNCHANGED <<disk, request, resolved, probed, bvars, ovars>>

ResolveNext == Resolve \/ ReadContent

ResolveSpec == ResolveInit /\ [][ResolveNext]_vars

\* ------------------------------------------------------------------ the run, as the log tells it

Finished == phase \in {"done", "failed"}

\* the calls of write on p, failed ones included
Writes(p) ==
  Cardinality({k \in DOMAIN log : log[k].op \in {"write", "writeFail"} /\ log[k].path = p})

\* the insertions of p into the visited-set
Adds(p) ==
  Cardinality({k \in DOMAIN log : log[k].op = "add" /\ log[k].path = p})

NoFailure == \A k \in DOMAIN log : log[k].op \notin {"writeFail", "depsFail"}

SetMax(S) == CHOOSE x \in S : \A y \in S : y <= x

SetMin(S) == CHOOSE x \in S : \A y \in S : x <= y

RECURSIVE ReachFrom(_, _)
\* the files reached from those of S along dependencies, never entering a
\* file of avoid
ReachFrom(S, avoid) ==
  LET N == S \cup {m \in Files \ avoid : \E n \in S : m \in Range(deps[n])}
  IN  IF N = S THEN S ELSE ReachFrom(N, avoid)

\* the files reachable from the root
Reachable == ReachFrom({Index}, {})

\* the files reachable from the root along files that are not seeded
ReachableUnseeded ==
  IF Index \in Seed(settings) THEN {} ELSE ReachFrom({Index}, Seed(settings))

\* two distinct files that depend on each other
TwoCycles ==
  {c \in Files \X Files :
     c[1] # c[2] /\ c[2] \in Range(deps[c[1]]) /\ c[1] \in Range(deps[c[2]])}

\* the event of the caller of the call that event k belongs to: the last
\* event before k that is one level up
CallerEvent(k) ==
  SetMax({j \in 1..(k - 1) : log[j].depth = log[k].depth - 1})

\* the dependencies the call enumerating at event j has built by event hi
ChildCalls(j, hi) ==
  LET IsCall(e) == e.op = "call" /\ e.depth = log[j].depth + 1
      calls == SelectSeq(SubSeq(log, j + 1, hi), IsCall)
  IN  [x \in 1..Len(calls) |-> calls[x].path]

IsPrefixSeq(s, t) == Len(s) <= Len(t) /\ SubSeq(t, 1, Len(s)) = s

\* the call that event k (two levels deep or more) belongs to has ended,
\* and its caller goes on: it has built its dependencies in order up to
\* here, and once it has ended it has returned normally, having built all
SiblingsContinue(k) ==
  LET d == log[k].depth
      j == CallerEvent(k)
      after == {m \in (k + 1)..Len(log) : log[m].depth < d}
      parent == log[j].path
  IN  /\ log[j].op = "deps"
      /\ IF after = {}
         THEN /\ ~Finished
              /\ Len(stack) >= d - 1
              /\ stack[d - 1].file = parent
              /\ IsPrefixSeq(ChildCalls(j, Len(log)), deps[parent])
         ELSE /\ log[SetMin(after)] = [op |-> "return", path |-> parent, depth |-> d - 1]
              /\ ChildCalls(j, SetMin(after)) = deps[parent]

\* ------------------------------------------------------------------ claims

\* C1: in one run, write is invoked at most once for each path, and each
\* path is added to the visited-set at most once (a seeded path never).
C1_NoDuplicateVisits ==
  \A p \in Files :
    /\ Writes(p) <= 1
    /\ Adds(p) <= 1
    /\ (p \in Seed(settings) => Adds(p) = 0 /\ Writes(p) = 0)

\* C1 witness: a finished run that met a path again after building it.
C1_Witness ==
  /\ phase = "done"
  /\ \E k \in DOMAIN log :
       /\ log[k].op = "skip"
       /\ Adds(log[k].path) = 1
       /\ Writes(log[k].path) = 1

\* C2 as stated: on a graph with a cycle, a run in which nothing fails
\* writes every file reachable from the root whose path is not seeded
\* exactly once.
C2_Original ==
  (phase = "done" /\ NoFailure /\ \E c \in TwoCycles : c[1] \in Reachable)
    => \A n \in Reachable \ Seed(settings) : Writes(n) = 1

\* C2 amended: the build terminates, and a run in which nothing fails
\* writes exactly once every file reachable from the root along files whose
\* paths are not seeded (the root included).
C2_CycleSafety ==
  /\ <>Finished
  /\ []((phase = "done" /\ NoFailure)
          => \A n \in ReachableUnseeded : Writes(n) = 1)

\* C2 witness: a finished run without failure over two files that depend
\* on each other, both written once.
C2_Witness ==
  /\ phase = "done"
  /\ NoFailure
  /\ \E c \in TwoCycles :
       /\ {c[1], c[2]} \subseteq ReachableUnseeded
       /\ Writes(c[1]) = 1
       /\ Writes(c[2]) = 1

C4_SiblingsSurviveFailure ==
  \A k \in DOMAIN log :
    (log[k].op = "throw" /\ log[k].depth >= 2) => SiblingsContinue(k)

\* C4 witness: a finished build in which a dependency threw and a later
\* dependency of the same caller was written.
C4_Witness ==
  /\ phase = "done"
  /\ \E k \in DOMAIN log :
       /\ log[k].op = "throw"
       /\ log[k].depth = 2
       /\ \E m \in (k + 1)..Len(log) : log[m].op = "write" /\ log[m].depth = 2

\* C5: a failed dependencies() is caught in the call of its node: the node
\* is written and visited, no dependency is built through it, the call
\* returns normally, the caller goes on with the later dependencies, and
\* the top-level build does not fail for it.
C5_EnumerationFailureIsLocal ==
  \A k \in DOMAIN log :
    log[k].op = "depsFail"
      => LET p == log[k].path
             d == log[k].depth
         IN  /\ k >= 3
             /\ log[k - 2] = [op |-> "add", path |-> p, depth |-> d]
             /\ log[k - 1] = [op |-> "write", path |-> p, depth |-> d]
             /\ p \in filesSeenSoFar
             /\ k < Len(log)
             /\ log[k + 1] = [op |-> "return", path |-> p, depth |-> d]
             /\ (d = 1 => phase = "done")
             /\ (d >= 2 => SiblingsContinue(k))
             /\ (phase = "failed"
                   => \E m \in DOMAIN log : log[m].op = "writeFail" /\ log[m].depth = 1)

\* C5 witness: the root has three distinct dependencies, the second failed
\* to enumerate its own, and the first and the third are written.
C5_Witness ==
  /\ phase = "done"
  /\ Len(deps[Index]) = 3
  /\ Cardinality(Range(deps[Index]) \cup {Index}) = 4
  /\ \E k \in DOMAIN log : log[k].op = "depsFail" /\ log[k].path = deps[Index][2]
  /\ \E k \in DOMAIN log : log[k].op = "write" /\ log[k].path = deps[Index][1]
  /\ \E k \in DOMAIN log : log[k].op = "write" /\ log[k].path = deps[Index][3]

\* the entries the visited-set is to start with
ExpectedSeed ==
  Range(settings.ignorePaths)
    \cup {settings.targetDir, <<"site", ".git">>, <<"site", ".direnv">>,
          <<"site", "node_modules">>}

\* C6: once seeded, the visited-set holds every ignore path, the target
\* directory and the source directory's .git, .direnv and node_modules, and
\* no file whose path is a seeded entry is written or asked for its
\* dependencies.
C6_SeededPathsNeverBuilt ==
  (\E k \in DOMAIN log : log[k].op = "seed")
    => /\ ExpectedSeed \subseteq filesSeenSoFar
       /\ \A k \in DOMAIN log :
            log[k].op \in {"add", "write", "writeFail", "deps", "depsFail"}
              => log[k].path \notin ExpectedSeed \cup Seed(settings)

\* C6 witness: a finished build that met the seeded target directory, or a
\* seeded ignore path, as a dependency and passed it by.
C6_Witness ==
  /\ phase = "done"
  /\ \E k \in DOMAIN log :
       /\ log[k].op = "skip"
       /\ log[k].depth >= 2
       /\ log[k].path \in ExpectedSeed
       /\ Adds(log[k].path) = 0

\* C7 as stated: with the target directory inside the source tree, no file
\* that is the target directory or lies underneath it is written.
C7_NeverBuildsIntoItself ==
  IsPrefix(settings.sourceDir, settings.targetDir)
    => \A k \in DOMAIN log :
         log[k].op = "write" => ~IsPrefix(settings.targetDir, log[k].path)

\* C8: when the source index.html resolves to absent, buildFromPath fails
\* there: no visited-set is made, buildSiteFromFile is not called and no
\* source file is written.
C8_MissingIndexIsFatal ==
  \A k \in DOMAIN log :
    log[k].op = "readIndexAbsent"
      => /\ phase = "failed"
         /\ k = Len(log)
         /\ dir = <<>>
         /\ filesSeenSoFar = {}
         /\ stack = <<>>
         /\ \A m \in DOMAIN log :
              log[m].op \notin {"seed", "call", "add", "write", "writeFail"}

\* C8 witness: the resolution of the source index.html came back absent.
C8_Witness ==
  /\ phase = "failed"
  /\ log # <<>>
  /\ log[Len(log)].op = "readIndexAbsent"

\* the sibling of the requested path under another extension
Sibling(ext) == [request[1] EXCEPT !.ext = ext]

\* the extensions whose handler declares the requested extension as a
\* target and under which a sibling of the requested path exists
DeclaredSources ==
  {y \in Exts :
     /\ Exists(disk, Sibling(y))
     /\ \E n \in DOMAIN Handlers :
          /\ request[1].ext \in Range(Handlers[n].targets)
          /\ y \in Range(Handlers[n].filetypes)}

\* what the transform of a source file yields
Transformed(src) ==
  IF disk[src.path] = Unreadable THEN [lang |-> "error", body |-> ""]
  ELSE IF src.path.ext \in {"ts", "tsx"} THEN [lang |-> "js", body |-> disk[src.path]]
  ELSE [lang |-> "css", body |-> disk[src.path]]

\* C9: a requested path at which no file exists resolves, when a sibling
\* under a declared source extension exists, to a node derived from that
\* sibling whose content is the transform of the sibling (a .ts or .tsx
\* sibling for a requested .js); when there is none, to absent.
C9_CompileFallback ==
  (request # <<>> /\ ~Exists(disk, request[1]))
    => /\ (request[1].ext = "js" /\ Exists(disk, Sibling("ts")))
            => resolved # <<>>
       /\ IF DeclaredSources = {}
          THEN resolved = <<>> /\ served = <<>>
          ELSE /\ resolved # <<>>
               /\ resolved[1].path = request[1]
               /\ resolved[1].derivedFrom # <<>>
               /\ resolved[1].derivedFrom[1].path.ext \in DeclaredSources
               /\ resolved[1].derivedFrom[1].path.stem = request[1].stem
               /\ read(disk, resolved[1]) = Transformed(resolved[1].derivedFrom[1])
               /\ (served # <<>>
                     => served[1] = Transformed(resolved[1].derivedFrom[1]))

\* C9 witness: foo.js is requested, only foo.ts exists, and the resolved
\* node has been read: its content is the transpiled foo.ts.
C9_Witness ==
  /\ request = <<[stem |-> <<"site", "foo">>, ext |-> "js"]>>
  /\ ~Exists(disk, request[1])
  /\ disk[Sibling("ts")] = "text1"
  /\ resolved # <<>>
  /\ served = <<[lang |-> "js", body |-> "text1"]>>

\* C10: when foo.js is missing and foo.ts exists, the node is derived from
\* foo.ts, foo.tsx is not even tested, and a failure of the derivation
\* changes nothing of it.
C10_FirstMatch ==
  (/\ request # <<>>
   /\ request[1].ext = "js"
   /\ ~Exists(disk, request[1])
   /\ Exists(disk, Sibling("ts")))
    => /\ resolved # <<>>
       /\ resolved[1].derivedFrom # <<>>
       /\ resolved[1].derivedFrom[1].path = Sibling("ts")
       /\ probed = <<request[1], Sibling("ts")>>

\* C10 witness: foo.ts and foo.tsx both exist, foo.js is requested and
\* derived from foo.ts, whose transpilation has failed.
C10_Witness ==
  /\ request # <<>>
  /\ request[1].ext = "js"
  /\ ~Exists(disk, request[1])
  /\ disk[Sibling("ts")] = Unreadable
  /\ disk[Sibling("tsx")] = "text1"
  /\ resolved # <<>>
  /\ resolved[1].derivedFrom[1].path = Sibling("ts")
  /\ served = <<[lang |-> "error", body |-> ""]>>

\* C14: a path is put in the visited-set right before its write is
\* attempted and stays there: after a failed write the path is in the set,
\* and every later call on it returns at once, with no second add, write
\* or enumeration.
C14_VisitedBeforeWrite ==
  /\ \A n \in DOMAIN stack : stack[n].file \in filesSeenSoFar
  /\ \A k \in DOMAIN log :
       /\ log[k].op \in {"write", "writeFail"}
            => /\ k >= 2
               /\ log[k - 1] = [op |-> "add", path |-> log[k].path, depth |-> log[k].depth]
               /\ log[k].path \in filesSeenSoFar
       /\ log[k].op = "writeFail"
            => \A m \in (k + 2)..Len(log) :
                 log[m].path = log[k].path
                   => /\ log[m].op \in {"call", "skip"}
                      /\ (log[m].op = "call"
                            => m < Len(log) /\ log[m + 1].op = "skip"
                               /\ log[m + 1].path = log[k].path)

\* C14 witness: a file whose write failed has been met again and passed by.
C14_Witness ==
  \E k \in DOMAIN log :
    /\ log[k].op = "writeFail"
    /\ \E m \in (k + 1)..Len(log) : log[m].op = "skip" /\ log[m].path = log[k].path

\* C15: the visited-set only grows, whatever fails, and from its seeding
\* on it holds the seeded entries and every path added.
C15_VisitedOnlyGrows ==
  /\ [][filesSeenSoFar \subseteq filesSeenSoFar']_vars
  /\ []((\E k \in DOMAIN log : log[k].op = "seed")
          => /\ Seed(settings) \subseteq filesSeenSoFar
             /\ \A k \in DOMAIN log : log[k].op = "add" => log[k].path \in filesSeenSoFar)

\* C15 witness: a finished build in which a write and an enumeration have
\* failed and a call has returned, the set holding the seed and every file
\* added.
C15_Witness ==
  /\ phase = "done"
  /\ \E k \in DOMAIN log : log[k].op = "writeFail"
  /\ \E k \in DOMAIN log : log[k].op = "depsFail"
  /\ filesSeenSoFar =
       Seed(settings) \cup {log[k].path : k \in {j \in DOMAIN log : log[j].op = "add"}}
  /\ Cardinality(filesSeenSoFar \ Seed(settings)) >= 3

\* C16: the traversal is depth-first, pre-order: a file's dependencies are
\* enumerated right after its write; a dependency is built only by a call
\* that has enumerated; and a dependency is started only when the one
\* before it has ended (passed by, returned or thrown), its whole subtree
\* done.
C16_DepthFirstPreOrder ==
  \A k \in DOMAIN log :
    /\ log[k].op \in {"deps", "depsFail"}
         => /\ k >= 2
            /\ log[k - 1] = [op |-> "write", path |-> log[k].path, depth |-> log[k].depth]
    /\ (log[k].op = "call" /\ log[k].depth >= 2)
         => LET j == CallerEvent(k)
            IN  /\ log[j].op = "deps"
                /\ \A m \in (j + 1)..k : log[m].depth >= log[k].depth
                /\ \/ k - 1 = j
                   \/ /\ log[k - 1].depth = log[k].depth
                      /\ log[k - 1].op \in {"skip", "return", "throw"}
    /\ (log[k].op \in {"return", "throw"})
         => \A m \in (k + 1)..Len(log) :
              log[m].depth > log[k].depth => \E x \in (k + 1)..m : log[x].op = "call" /\ log[x].depth = log[k].depth

\* C16 witness: a finished build of a root with two dependencies, the
\* first with a dependency of its own that was written before the second
\* was started.
C16_Witness ==
  /\ phase = "done"
  /\ \E k1, k2, k3 \in DOMAIN log :
       /\ k1 < k2 /\ k2 < k3
       /\ log[k1].op = "write" /\ log[k1].depth = 2
       /\ log[k2].op = "write" /\ log[k2].depth = 3
       /\ log[k3].op = "write" /\ log[k3].depth = 2

\* the handler registered for each extension of the model
ExpectedHandler(ext) ==
  IF ext = "js" THEN "JavascriptFile"
  ELSE IF ext \in {"ts", "tsx"} THEN "TypeScriptFile"
  ELSE IF ext = "scss" THEN "SCSSFile"
  ELSE "TextFile"

\* C18: a path at which a file exists resolves to the node of the handler
\* registered for its extension, not derived from anything, and nothing
\* but the path itself is tested for existence, whatever siblings exist.
C18_LiteralFirst ==
  (request # <<>> /\ Exists(disk, request[1]))
    => /\ resolved # <<>>
       /\ resolved[1].path = request[1]
       /\ resolved[1].handler = ExpectedHandler(request[1].ext)
       /\ resolved[1].derivedFrom = <<>>
       /\ probed = <<request[1]>>
       /\ (served # <<>>
             => served[1] = IF disk[request[1]] = Unreadable
                            THEN [lang |-> "error", body |-> ""]
                            ELSE [lang |-> request[1].ext, body |-> disk[request[1]]])

\* C18 witness: foo.js is requested, foo.js and foo.ts both exist, and the
\* node is foo.js itself, read as it is.
C18_Witness ==
  /\ request = <<[stem |-> <<"site", "foo">>, ext |-> "js"]>>
  /\ disk[request[1]] = "text1"
  /\ disk[Sibling("ts")] = "text2"
  /\ resolved # <<>>
  /\ resolved[1].derivedFrom = <<>>
  /\ served = <<[lang |-> "js", body |-> "text1"]>>

\* C17: deriving a node runs no transform; the transform runs when the
\* derived node is read, once, and not at all if it never is.  The derived
\* node is at the source's path with the requested extension, and its
\* derivedFrom is the node of the source file.
C17_LazyTransform ==
  (request # <<>> /\ resolved # <<>> /\ resolved[1].derivedFrom # <<>>)
    => LET node == resolved[1]
           src == node.derivedFrom[1]
       IN  /\ transformRuns = (IF served = <<>> THEN 0 ELSE 1)
           /\ Exists(disk, src.path)
           /\ src.derivedFrom = <<>>
           /\ src.handler = ExpectedHandler(src.path.ext)
           /\ node.path = [stem |-> src.path.stem, ext |-> request[1].ext]
           /\ node.path.ext # src.path.ext
           /\ (request[1].ext = "js" => node.transform = "tsToJs")

\* C17 witness: foo.js has been derived from foo.ts and not read yet.
C17_Witness ==
  /\ request = <<[stem |-> <<"site", "foo">>, ext |-> "js"]>>
  /\ resolved # <<>>
  /\ resolved[1].derivedFrom # <<>>
  /\ resolved[1].derivedFrom[1].path = Sibling("ts")
  /\ served = <<>>
  /\ transformRuns = 0

\* C19: buildFromPath never changes the settings it is given.  The traversal
\* runs under one copy whose targetDir is <targetDir>/source and which is
\* otherwise equal to the settings; the copy is never changed either, every
\* write of the traversal lands under <targetDir>/source, and the settings
\* are the caller's when the build has returned or thrown.
C19_SettingsNeverMutated ==
  /\ [][/\ settings' = settings
        /\ (cfgOfRun # <<>> => cfgOfRun' = cfgOfRun)]_vars
  /\ [](cfgOfRun # <<>> =>
          /\ cfgOfRun[1].targetDir = Join(settings.targetDir, "source")
          /\ cfgOfRun[1].targetDir # settings.targetDir
          /\ cfgOfRun[1].sourceDir = settings.sourceDir
          /\ cfgOfRun[1].ignorePaths = settings.ignorePaths)
  /\ [](\A e \in output :
          IF e.from = HomePage
          THEN e.at = Join(settings.targetDir, "index.html")
          ELSE /\ cfgOfRun # <<>>
               /\ IsPrefix(Join(settings.targetDir, "source"), e.at)
               /\ e.at = Join(settings.targetDir, "source")
                           \o SubSeq(e.from, Len(settings.sourceDir) + 1, Len(e.from)))

\* C19 witness: a build has returned after writing the root file and two
\* files of the traversal under the copy.
C19_Witness ==
  /\ phase = "done"
  /\ cfgOfRun # <<>>
  /\ Cardinality({e \in output : e.from # HomePage}) >= 2

\* the questions a build puts to the file system, each with its two answers
Questions ==
  { {"write", "writeFail"}, {"deps", "depsFail"},
    {"rootFile", "rootFileFail"}, {"readIndex", "readIndexAbsent"} }

\* the file system answered two builds alike: no write, enumeration or
\* resolution succeeded for a path in one and failed for it in the other
SameAnswers(l1, l2) ==
  \A i \in DOMAIN l1, j \in DOMAIN l2 :
    (l1[i].path = l2[j].path /\ \E q \in Questions : {l1[i].op, l2[j].op} \subseteq q)
      => l1[i].op = l2[j].op

\* C12: a second build of the same source graph against an emptied output
\* directory, the file system answering as it did the first time, ends with
\* the output tree of the first build: the same paths written from the same
\* sources.
C12_Idempotent ==
  (previous # <<>> /\ phase \in {"done", "failed"} /\ SameAnswers(previous[1].log, log))
    => output = previous[1].output

\* C12 witness: a second build has returned with the root file and two
\* traversal files written, as in the first.
C12_Witness ==
  /\ previous # <<>>
  /\ phase = "done"
  /\ SameAnswers(previous[1].log, log)
  /\ Cardinality(previous[1].output) >= 3
  /\ Cardinality(output) >= 3

\* the handlers among the first n that claim extension e
Claimers(e, n) == {k \in 1..n : e \in Range(descriptors[k].filetypes)}

\* two of the handlers to register claim one extension
Collision == \E e \in LookupExts : Cardinality(Claimers(e, Len(descriptors))) >= 2

\* C11: the construction of a registry fails at the first handler that
\* claims an extension already registered, and nothing is looked up in a
\* registry that is not constructed; in a constructed registry every
\* extension is claimed by at most one handler, the one the map names.
C11_RegistrationCollision ==
  /\ \A e \in LookupExts : Cardinality(Claimers(e, registered)) <= 1
  /\ regState = "failed" =>
       /\ registered < Len(descriptors)
       /\ \E e \in LookupExts : Cardinality(Claimers(e, registered + 1)) = 2
  /\ regState = "ready" =>
       /\ registered = Len(descriptors)
       /\ ~Collision
       /\ \A e \in LookupExts :
            extMap[e] = (IF Claimers(e, registered) = {} THEN "none"
                         ELSE descriptors[CHOOSE k \in Claimers(e, registered) : TRUE].name)
  /\ regState # "ready" => lookups = <<>>
  /\ \A k \in DOMAIN lookups :
       lookups[k].handler =
         (IF Claimers(lookups[k].ext, registered) = {} THEN "TextFile"
          ELSE descriptors[CHOOSE n \in Claimers(lookups[k].ext, registered) : TRUE].name)
  /\ (descriptors = Handlers /\ regState = "ready") =>
       \A e \in Exts : lookupIn(extMap, e) = lookup(e)

\* C11 witness: JavascriptFile is registered, the TypeScript handler that
\* also claims js is next, and the construction has failed with nothing
\* looked up.
C11_Witness ==
  /\ regState = "failed"
  /\ registered >= 1
  /\ \E k \in 1..registered : descriptors[k].name = "JavascriptFile"
  /\ descriptors[registered + 1] = TypeScriptFile_before
  /\ Cardinality(Claimers("js", registered + 1)) = 2
  /\ lookups = <<>>

\* C13: deploy switches no branch: the repository stays on the branch that
\* was checked out when deploy started, and every commit and push is made
\* on that branch.
C13_NoBranchSwitching ==
  /\ branch = atStart.branch
  /\ \A k \in DOMAIN gitLog :
       gitLog[k].op \in {"commit", "push"} => gitLog[k].on = atStart.branch

\* the deploy beside ts.ts keeps to the branch it started on
SimpleDeployStaysOnBranch ==
  variant = "deploy" =>
    /\ branch = atStart.branch
    /\ \A k \in DOMAIN gitLog : gitLog[k].op # "checkout" /\ gitLog[k].on = atStart.branch

\* C20: with no folder to commit, commitFolderToBranch throws at once:
\* nothing is done to the repository or the file system, which are as
\* they were found.
C20_MissingFolderThrowsFirst ==
  (variant = "commitFolderToBranch" /\ ~atStart.folderExists /\ dpc # "start")
    => /\ dpc = "thrown"
       /\ gitLog = <<>>
       /\ branch = atStart.branch
       /\ folderExists = atStart.folderExists
       /\ tmpExists = atStart.tmpExists
       /\ stashed = 0

\* C20 witness: commitFolderToBranch has thrown for a missing folder.
C20_Witness ==
  /\ variant = "commitFolderToBranch"
  /\ ~atStart.folderExists
  /\ dpc = "thrown"
  /\ currentBranch = atStart.branch

\* the move of the folder to the tmp dir failed at entry k
MoveToTmpFailedAt(k) == gitLog[k].op = "moveToTmp" /\ ~gitLog[k].ok

\* the checkout of the target branch, the first checkout of a deploy,
\* failed at entry k
CheckoutTargetFailedAt(k) ==
  /\ gitLog[k].op = "checkout"
  /\ ~gitLog[k].ok
  /\ \A j \in 1..(k - 1) : gitLog[j].op # "checkout"

\* nothing has been committed or pushed, or tried to be
NothingPublished == \A k \in DOMAIN gitLog : gitLog[k].op \notin {"commit", "push"}

CheckoutFailureAsCoded ==
  variant = "commitFolderToBranch" =>
    \A k \in DOMAIN gitLog :
      /\ MoveToTmpFailedAt(k) =>
           /\ dpc = "thrown"
           /\ Len(gitLog) = k + 1
           /\ gitLog[k + 1].op = "stashPop"
           /\ NothingPublished
      /\ CheckoutTargetFailedAt(k) =>
           /\ dpc = "thrown"
           /\ Len(gitLog) >= k + 1
           /\ gitLog[k + 1].op = "moveBack"
           /\ IF gitLog[k + 1].ok
              THEN Len(gitLog) = k + 2 /\ gitLog[k + 2].op = "stashPop"
              ELSE Len(gitLog) = k + 1 /\ stashed = 1
           /\ NothingPublished

\* the operations the order of a deploy is told by
IsMilestone(e) == e.op \in {"stash", "checkout", "commit", "push", "stashPop"}

\* C22: when commitFolderToBranch has returned, it has stashed, checked out
\* the target branch, committed, pushed, checked out the branch it started
\* on and tried one stashPop, in this order and each but the stashPop with
\* success; the repository is on the branch it started on; and a fetch,
\* failed or not, is followed by the checkout of the target branch.
C22_OrderOnReturn ==
  variant = "commitFolderToBranch" =>
    /\ dpc = "returned" =>
         LET m == SelectSeq(gitLog, IsMilestone)
         IN  /\ Len(m) = 6
             /\ <<m[1].op, m[2].op, m[3].op, m[4].op, m[5].op, m[6].op>>
                  = <<"stash", "checkout", "commit", "push", "checkout", "stashPop">>
             /\ \A k \in 1..5 : m[k].ok
             /\ m[1].on = atStart.branch
             /\ m[2].arg = targetBranch
             /\ m[3].on = targetBranch
             /\ m[4].on = targetBranch
             /\ m[5].arg = atStart.branch
             /\ branch = atStart.branch
             /\ Cardinality({k \in DOMAIN gitLog : gitLog[k].op = "stashPop"}) = 1
             /\ gitLog[Len(gitLog)].op = "stashPop"
             /\ \E k \in DOMAIN gitLog : gitLog[k].op = "fetch"
    /\ (gitLog # <<>> /\ gitLog[Len(gitLog)].op = "fetch") => dpc = "checkout"

\* C22 witness: commitFolderToBranch has returned from a deploy to another
\* branch whose fetch failed.
C22_Witness ==
  /\ variant = "commitFolderToBranch"
  /\ dpc = "returned"
  /\ targetBranch # atStart.branch
  /\ \E k \in DOMAIN gitLog : gitLog[k].op = "fetch" /\ ~gitLog[k].ok
  /\ branch = atStart.branch

====
